---- MODULE Spec2Model ----
(***************************************************************************)
(* Model of src/scrapers/facebook-marketplace.ts: the marketplace          *)
(* operations (searchMarketplace, getListingDetails, getCategories,        *)
(* getNewListings) and the discussion operations (searchReddit,            *)
(* getTrending, getSubredditTop, getThread) together with their helpers.   *)
(*                                                                         *)
(* Every public operation is an async function with one suspension point,  *)
(* the await of proxyFetch.  It is modelled by two actions: X_call (the    *)
(* code up to the await, which issues the request) and X_resume (the code  *)
(* after the await).  The transport collaborator is the environment.       *)
(*                                                                         *)
(* A fetched HTML document is represented by what each regular expression  *)
(* of the source finds in it, in document order:                           *)
(*   relay  - the first span matched by the relay pattern (line 50)        *)
(*   comet  - the first span matched by the data-sjs pattern (line 56)     *)
(*   tuples - the listing ids matched by listingRegex (line 62)            *)
(*   links  - the ids matched by cardRegex (lines 181, 321)                *)
(* Fields of the records that no checked property reads (title, price,     *)
(* body, score, ...) are left out of the records.                          *)
(***************************************************************************)
EXTENDS Integers, Sequences, FiniteSets, TLC

VARIABLES op, pc, args, requests, bodyReads, resp, fbData, path, result, error

vars == <<op, pc, args, requests, bodyReads, resp, fbData, path, result, error>>

(***************************************************************************)
(* Bounds of the model.                                                    *)
(***************************************************************************)
MaxId == 2
MaxTuples == 2
MaxLinks == 2
MaxLimit == 2
MaxCats == 2
MaxNodes == 3
MaxPosts == 1
MaxJsonLen == 3
MaxNumComments == 1

Ids == 1..MaxId
Limits == -1..MaxLimit

Min(a, b) == IF a <= b THEN a ELSE b
Max(a, b) == IF a >= b THEN a ELSE b

\* All sequences over S of length at most n.
SeqsUpTo(S, n) == UNION {[1..k -> S] : k \in 0..n}

\* An optional value: <<>> when absent (undefined), <<x>> when present.
Optional(S) == {<<>>} \cup {<<x>> : x \in S}

Range(s) == {s[i] : i \in 1..Len(s)}

NoDuplicates(s) == \A i, j \in 1..Len(s) : i # j => s[i] # s[j]

(***************************************************************************)
(* Marketplace documents.                                                  *)
(***************************************************************************)

\* The value of the extracted_listings property of a parsed state object:
\* missing, a falsy value, a truthy value that is no array, or an array.
ELAbsent == [k |-> "absent", items |-> <<>>]
ELFalsy == [k |-> "falsy", items |-> <<>>]
ELNonArray == [k |-> "nonarray", items |-> <<>>]
ELArray(items) == [k |-> "array", items |-> items]

ELValues ==
    {ELAbsent, ELFalsy, ELNonArray, ELArray(<<>>), ELArray(<<[id |-> 1], [id |-> MaxId]>>)}

\* What a span-matching strategy finds: no span, a span that is not JSON,
\* or a span that parses to a state object.
SpanNone == [m |-> "none", el |-> ELAbsent]
SpanBad == [m |-> "bad", el |-> ELAbsent]
SpanOk(el) == [m |-> "ok", el |-> el]

Spans == {SpanNone, SpanBad} \cup {SpanOk(el) : el \in ELValues}

HtmlDocs ==
    [relay : Spans, comet : Spans,
     tuples : SeqsUpTo(Ids, MaxTuples), links : SeqsUpTo(Ids, MaxLinks)]

EmptyHtml == [relay |-> SpanNone, comet |-> SpanNone, tuples |-> <<>>, links |-> <<>>]

\* The value returned by extractFbData: null or a state object.
FbNull == [isNull |-> TRUE, el |-> ELAbsent]
FbState(el) == [isNull |-> FALSE, el |-> el]

\* html.match(...) followed by try { return JSON.parse(...) } catch {}:
\* <<state>> when the span exists and parses, <<>> otherwise.
ParseSpan(span) == IF span.m = "ok" THEN <<FbState(span.el)>> ELSE <<>>

\* First strategy (lines 50-53).
relayStrategy(html) == ParseSpan(html.relay)

\* Second strategy (lines 56-59).
cometStrategy(html) == ParseSpan(html.comet)

\* Third strategy (lines 62-73): one entry per tuple, in document order.
listingStrategy(html) ==
    IF Len(html.tuples) > 0
    THEN <<FbState(ELArray([i \in 1..Len(html.tuples) |-> [id |-> html.tuples[i]]]))>>
    ELSE <<>>

\* Variant: the data-sjs span is tried before the relay span.
extractFbDataCometFirst(html) ==
    IF cometStrategy(html) # <<>> THEN cometStrategy(html)[1]
    ELSE IF relayStrategy(html) # <<>> THEN relayStrategy(html)[1]
    ELSE IF listingStrategy(html) # <<>> THEN listingStrategy(html)[1]
    ELSE FbNull

extractFbData(html) ==
    IF relayStrategy(html) # <<>> THEN relayStrategy(html)[1]
    ELSE IF cometStrategy(html) # <<>> THEN cometStrategy(html)[1]
    ELSE IF listingStrategy(html) # <<>> THEN listingStrategy(html)[1]
    ELSE FbNull

\* Variant: the cap is not applied.
sliceAll(s, n) == s

\* Array.prototype.slice(0, n): a negative n counts from the end.
slice(s, n) ==
    IF n >= 0 THEN SubSeq(s, 1, Min(n, Len(s)))
    ELSE SubSeq(s, 1, Max(0, Len(s) + n))

\* Variant: any state object counts (if (fbData) instead of
\* if (fbData?.extracted_listings)).
hasExtractedListingsAnyState(fb) == ~fb.isNull

\* fbData?.extracted_listings is truthy.
hasExtractedListings(fb) == ~fb.isNull /\ fb.el.k \in {"nonarray", "array"}

\* for (const item of fbData.extracted_listings.slice(0, limit)) results.push(...)
mapListings(items, limit) ==
    LET s == slice(items, limit) IN [i \in 1..Len(s) |-> [id |-> s[i].id]]

\* The cardRegex loop: stops when the matches are exhausted or results.length
\* reaches limit; an id already in seenIds is skipped.
RECURSIVE scanLoop(_, _, _, _, _)
scanLoop(links, i, seenIds, results, limit) ==
    IF i > Len(links) \/ ~(Len(results) < limit) THEN results
    ELSE IF links[i] \in seenIds THEN scanLoop(links, i + 1, seenIds, results, limit)
    ELSE scanLoop(links, i + 1, seenIds \cup {links[i]},
                  Append(results, [id |-> links[i]]), limit)

scanLinks(links, limit) == scanLoop(links, 1, {}, <<>>, limit)

(***************************************************************************)
(* Category documents: the raw slugs matched by catRegex, each a base name *)
(* followed by some number of trailing slashes.                            *)
(***************************************************************************)
MaxSlashes == 1
RawSlugs == [base : Ids, slashes : 0..MaxSlashes]
CatDocs == SeqsUpTo(RawSlugs, MaxCats)

\* match[1].replace(/\/$/, ''): one trailing slash is removed.
stripSlash(raw) == [base |-> raw.base, slashes |-> Max(0, raw.slashes - 1)]

RECURSIVE catLoop(_, _, _, _)
catLoop(cats, i, seen, categories) ==
    IF i > Len(cats) THEN categories
    ELSE LET slug == stripSlash(cats[i]) IN
         IF slug \in seen THEN catLoop(cats, i + 1, seen, categories)
         ELSE catLoop(cats, i + 1, seen \cup {slug}, Append(categories, [id |-> slug]))

scanCategories(cats) == catLoop(cats, 1, {}, <<>>)

(***************************************************************************)
(* Listing detail documents (parseListingFromHtml).                        *)
(***************************************************************************)
DetailDocs == [amount : Optional(Ids), unavailable : BOOLEAN]

parseListingFromHtml(html) ==
    [price |-> IF html.amount # <<>> THEN html.amount[1] ELSE 0,
     is_available |-> ~html.unavailable]

(***************************************************************************)
(* Discussion payloads.                                                    *)
(***************************************************************************)
PostAuthors == {"alice", "bob"}
CommentAuthors == {"alice"}
DefaultMaxDepth == 3
Depths == {DefaultMaxDepth, DefaultMaxDepth + 1}

\* The data of a wrapped post node.
PostDatas == [author : Optional(PostAuthors), num_comments : Optional(1..MaxNumComments)]

\* The replies property of a comment node: "" (no reply list) or a wrapped
\* listing with at least one child.
NoReplies == [has |-> FALSE, children |-> <<>>]
Replies(children) == [has |-> TRUE, children |-> children]

\* The reply forests with at most n nodes.  A node's id is its path from the
\* top-level list, so that ids are distinct within one tree.
RECURSIVE Forests(_, _, _)
Nodes(n, id) ==
    LET replies == {NoReplies} \cup {Replies(c) : c \in Forests(n, id, 1) \ {<<>>}} IN
    [kind : {"t1"}, id : {id}, author : Optional(CommentAuthors),
     depth : Depths, replies : replies]
    \cup [kind : {"more"}, id : {id}, author : {<<>>}, depth : {0}, replies : replies]
Forests(n, parent, idx) ==
    {<<>>} \cup
    UNION {{<<node>> \o rest : node \in Nodes(k, Append(parent, idx)),
                              rest \in Forests(n - 1 - k, parent, idx + 1)}
           : k \in 0..(n - 1)}

CommentForests == Forests(MaxNodes, <<>>, 1)

\* The parsed JSON body of a thread response.
NotArray == [isArray |-> FALSE, length |-> 0, post |-> <<>>, children |-> <<>>]
ShortArray(n) == [isArray |-> TRUE, length |-> n, post |-> <<>>, children |-> <<>>]
ThreadBodies ==
    {NotArray} \cup {ShortArray(n) : n \in 0..1}
    \cup [isArray : {TRUE}, length : 2..MaxJsonLen,
          post : Optional(PostDatas), children : CommentForests]

\* The parsed JSON body of a listing feed: json.data.children.
FeedBodies == SeqsUpTo(PostDatas, MaxPosts)

\* parsePost (lines 409-428).
parsePost(d) ==
    [author |-> IF d.author # <<>> THEN d.author[1] ELSE "[deleted]",
     num_comments |-> IF d.num_comments # <<>> THEN d.num_comments[1] ELSE 0]

\* parseComment (lines 430-443).
parseComment(child, opAuthor) ==
    [id |-> child.id,
     author |-> IF child.author # <<>> THEN child.author[1] ELSE "[deleted]",
     depth |-> child.depth,
     is_op |-> child.author = <<opAuthor>>,
     replies_count |-> IF child.replies.has THEN Len(child.replies.children) ELSE 0]

\* Variant: the replies of a node deeper than maxDepth are not visited.
RECURSIVE flattenCommentsCutoff(_, _, _)
flattenCommentsCutoff(children, opAuthor, maxDepth) ==
    IF children = <<>> THEN <<>>
    ELSE LET child == Head(children)
             rest == flattenCommentsCutoff(Tail(children), opAuthor, maxDepth)
         IN IF child.kind = "more" THEN rest
            ELSE LET comment == parseComment(child, opAuthor) IN
                 IF comment.depth <= maxDepth
                 THEN <<comment>>
                      \o (IF child.replies.has
                          THEN flattenCommentsCutoff(child.replies.children, opAuthor, maxDepth)
                          ELSE <<>>)
                      \o rest
                 ELSE rest

\* Variant: a continuation marker gives no record but its replies are visited.
RECURSIVE flattenCommentsThroughMore(_, _, _)
flattenCommentsThroughMore(children, opAuthor, maxDepth) ==
    IF children = <<>> THEN <<>>
    ELSE LET child == Head(children)
             rest == flattenCommentsThroughMore(Tail(children), opAuthor, maxDepth)
             comment == parseComment(child, opAuthor)
         IN (IF child.kind # "more" /\ comment.depth <= maxDepth THEN <<comment>> ELSE <<>>)
            \o (IF child.replies.has
                THEN flattenCommentsThroughMore(child.replies.children, opAuthor, maxDepth)
                ELSE <<>>)
            \o rest

\* flattenComments (lines 445-459).
RECURSIVE flattenComments(_, _, _)
flattenComments(children, opAuthor, maxDepth) ==
    IF children = <<>> THEN <<>>
    ELSE LET child == Head(children)
             rest == flattenComments(Tail(children), opAuthor, maxDepth)
         IN IF child.kind = "more" THEN rest
            ELSE LET comment == parseComment(child, opAuthor) IN
                 (IF comment.depth <= maxDepth THEN <<comment>> ELSE <<>>)
                 \o (IF child.replies.has
                     THEN flattenComments(child.replies.children, opAuthor, maxDepth)
                     ELSE <<>>)
                 \o rest

\* children.map((child, i) => ({ rank: i + 1, ... })) of getTrending.
trendingTopics(children) ==
    [i \in 1..Len(children) |->
        [rank |-> i,
         num_comments |-> IF children[i].num_comments # <<>>
                          THEN children[i].num_comments[1] ELSE 0]]

(***************************************************************************)
(* The transport collaborator and the calls.                               *)
(***************************************************************************)
FbSearchOps == {"searchMarketplace", "getNewListings"}

BodiesFor(o) ==
    IF o \in FbSearchOps THEN HtmlDocs
    ELSE IF o = "getCategories" THEN CatDocs
    ELSE IF o = "getListingDetails" THEN DetailDocs
    ELSE IF o = "getThread" THEN ThreadBodies
    ELSE FeedBodies

\* The body carried by a non-ok response.
ErrorBodyFor(o) ==
    IF o \in FbSearchOps THEN EmptyHtml
    ELSE IF o = "getCategories" THEN <<>>
    ELSE IF o = "getListingDetails" THEN [amount |-> <<>>, unavailable |-> FALSE]
    ELSE IF o = "getThread" THEN NotArray
    ELSE <<>>

NoResp == [ok |-> FALSE, body |-> <<>>]
NoResult == [kind |-> "none"]
NoArgs == [limit |-> 0]

Init ==
    /\ op = "none"
    /\ pc = "idle"
    /\ args = NoArgs
    /\ requests = 0
    /\ bodyReads = 0
    /\ resp = NoResp
    /\ fbData = FbNull
    /\ path = "none"
    /\ result = NoResult
    /\ error = "none"

\* await proxyFetch(url, {...}): the one request of a call.
issueRequest(n) == n + 1

\* The code of a public operation up to its await.
Call(o, a) ==
    /\ pc = "idle"
    /\ op' = o
    /\ args' = a
    /\ requests' = issueRequest(requests)
    /\ pc' = "awaiting"
    /\ UNCHANGED <<bodyReads, resp, fbData, path, result, error>>

TransportOk ==
    /\ pc = "awaiting"
    /\ \E b \in BodiesFor(op) : resp' = [ok |-> TRUE, body |-> b]
    /\ pc' = "responded"
    /\ UNCHANGED <<op, args, requests, bodyReads, fbData, path, result, error>>

TransportFail ==
    /\ pc = "awaiting"
    /\ resp' = [ok |-> FALSE, body |-> ErrorBodyFor(op)]
    /\ pc' = "responded"
    /\ UNCHANGED <<op, args, requests, bodyReads, fbData, path, result, error>>

\* Variant: the status of the response is not looked at.
fetchFailedNever(r) == FALSE

\* if (!response.ok) throw ...
fetchFailed(r) == ~r.ok

\* throw new Error(...): the call ends without a result.
Throw(kind) ==
    /\ pc' = "failed"
    /\ error' = kind
    /\ UNCHANGED <<op, args, requests, bodyReads, resp, fbData, path, result>>

\* The call returns r after reading the body once.
Return(r, fb, p) ==
    /\ pc' = "done"
    /\ bodyReads' = bodyReads + 1
    /\ result' = r
    /\ fbData' = fb
    /\ path' = p
    /\ UNCHANGED <<op, args, requests, resp, error>>

\* A throw after the body was read (a TypeError raised while assembling).
ThrowAfterRead(kind, fb, p) ==
    /\ pc' = "failed"
    /\ error' = kind
    /\ bodyReads' = bodyReads + 1
    /\ fbData' = fb
    /\ path' = p
    /\ UNCHANGED <<op, args, requests, resp, result>>

(***************************************************************************)
(* searchMarketplace (lines 127-207).                                      *)
(***************************************************************************)
searchMarketplace_call == \E limit \in Limits : Call("searchMarketplace", [limit |-> limit])

searchMarketplace_resume ==
    /\ pc = "responded"
    /\ op = "searchMarketplace"
    /\ IF fetchFailed(resp) THEN Throw("FetchError")
       ELSE LET html == resp.body
                fb == extractFbData(html)
            IN IF hasExtractedListings(fb)
               THEN IF fb.el.k = "array"
                    THEN LET results == mapListings(fb.el.items, args.limit) IN
                         Return([kind |-> "search",
                                 results |-> slice(results, args.limit),
                                 total_results |-> Len(results)], fb, "mapped")
                    ELSE ThrowAfterRead("TypeError", fb, "mapped")
               ELSE LET results == scanLinks(html.links, args.limit) IN
                    Return([kind |-> "search",
                            results |-> slice(results, args.limit),
                            total_results |-> Len(results)], fb, "scanned")

(***************************************************************************)
(* getNewListings (lines 270-339).                                         *)
(***************************************************************************)
getNewListings_call == \E limit \in Limits : Call("getNewListings", [limit |-> limit])

getNewListings_resume ==
    /\ pc = "responded"
    /\ op = "getNewListings"
    /\ IF fetchFailed(resp) THEN Throw("FetchError")
       ELSE LET html == resp.body
                fb == extractFbData(html)
            IN IF hasExtractedListings(fb)
               THEN IF fb.el.k = "array"
                    THEN LET results == mapListings(fb.el.items, args.limit) IN
                         Return([kind |-> "new",
                                 results |-> slice(results, args.limit)], fb, "mapped")
                    ELSE ThrowAfterRead("TypeError", fb, "mapped")
               ELSE LET results == scanLinks(html.links, args.limit) IN
                    Return([kind |-> "new",
                            results |-> slice(results, args.limit)], fb, "scanned")

(***************************************************************************)
(* getListingDetails (lines 212-228).                                      *)
(***************************************************************************)
getListingDetails_call == Call("getListingDetails", NoArgs)

getListingDetails_resume ==
    /\ pc = "responded"
    /\ op = "getListingDetails"
    /\ IF fetchFailed(resp) THEN Throw("FetchError")
       ELSE Return([kind |-> "listing", listing |-> parseListingFromHtml(resp.body)],
                   fbData, path)

(***************************************************************************)
(* getCategories (lines 233-265).                                          *)
(***************************************************************************)
getCategories_call == Call("getCategories", NoArgs)

getCategories_resume ==
    /\ pc = "responded"
    /\ op = "getCategories"
    /\ IF fetchFailed(resp) THEN Throw("FetchError")
       ELSE Return([kind |-> "categories", results |-> scanCategories(resp.body)],
                   fbData, path)

(***************************************************************************)
(* searchReddit (lines 464-491).                                           *)
(***************************************************************************)
searchReddit_call == Call("searchReddit", NoArgs)

searchReddit_resume ==
    /\ pc = "responded"
    /\ op = "searchReddit"
    /\ IF fetchFailed(resp) THEN Throw("FetchError")
       ELSE LET posts == [i \in 1..Len(resp.body) |-> parsePost(resp.body[i])] IN
            Return([kind |-> "posts", results |-> posts, total_results |-> Len(posts)],
                   fbData, path)

(***************************************************************************)
(* getTrending (lines 496-528).                                            *)
(***************************************************************************)
getTrending_call == Call("getTrending", NoArgs)

getTrending_resume ==
    /\ pc = "responded"
    /\ op = "getTrending"
    /\ IF fetchFailed(resp) THEN Throw("FetchError")
       ELSE Return([kind |-> "trending", results |-> trendingTopics(resp.body)],
                   fbData, path)

(***************************************************************************)
(* getSubredditTop (lines 533-552).                                        *)
(***************************************************************************)
getSubredditTop_call == Call("getSubredditTop", NoArgs)

getSubredditTop_resume ==
    /\ pc = "responded"
    /\ op = "getSubredditTop"
    /\ IF fetchFailed(resp) THEN Throw("FetchError")
       ELSE Return([kind |-> "top",
                    results |-> [i \in 1..Len(resp.body) |-> parsePost(resp.body[i])]],
                   fbData, path)

(***************************************************************************)
(* getThread (lines 557-592).                                              *)
(***************************************************************************)
getThread_call == Call("getThread", NoArgs)

\* Variant: exactly two elements are required.
invalidThreadShapeExact(json) == ~json.isArray \/ json.length # 2

\* !Array.isArray(json) || json.length < 2
invalidThreadShape(json) == ~json.isArray \/ json.length < 2

getThread_resume ==
    /\ pc = "responded"
    /\ op = "getThread"
    /\ IF fetchFailed(resp) THEN Throw("FetchError")
       ELSE LET json == resp.body IN
            IF invalidThreadShape(json) THEN ThrowAfterRead("ShapeError", fbData, path)
            ELSE IF json.post = <<>> THEN ThrowAfterRead("TypeError", fbData, path)
            ELSE LET post == parsePost(json.post[1])
                     opAuthor == post.author
                     comments == flattenComments(json.children, opAuthor, DefaultMaxDepth)
                 IN Return([kind |-> "thread", post |-> post, comments |-> comments,
                            total_comments |-> post.num_comments], fbData, path)

\* The caller is done with the call; nothing of it is kept for the next one.
Finish ==
    /\ pc \in {"done", "failed"}
    /\ op' = "none"
    /\ pc' = "idle"
    /\ args' = NoArgs
    /\ requests' = 0
    /\ bodyReads' = 0
    /\ resp' = NoResp
    /\ fbData' = FbNull
    /\ path' = "none"
    /\ result' = NoResult
    /\ error' = "none"

Next ==
    \/ searchMarketplace_call
    \/ searchMarketplace_resume
    \/ getNewListings_call
    \/ getNewListings_resume
    \/ getListingDetails_call
    \/ getListingDetails_resume
    \/ getCategories_call
    \/ getCategories_resume
    \/ searchReddit_call
    \/ searchReddit_resume
    \/ getTrending_call
    \/ getTrending_resume
    \/ getSubredditTop_call
    \/ getSubredditTop_resume
    \/ getThread_call
    \/ getThread_resume
    \/ TransportOk
    \/ TransportFail
    \/ Finish

Spec == Init /\ [][Next]_vars

(***************************************************************************)
(* Properties.                                                             *)
(***************************************************************************)
IdsOf(records) == [i \in 1..Len(records) |-> records[i].id]

FbSearchReturned == pc = "done" /\ op \in FbSearchOps

ThreadReturned == pc = "done" /\ op = "getThread"

\* The call has ended, by a return or by a throw.
Ended == pc \in {"done", "failed"}

\* Every node of a reply forest, whatever it hangs under.
RECURSIVE AllNodes(_)
AllNodes(forest) ==
    UNION {{forest[i]} \cup AllNodes(forest[i].replies.children) : i \in 1..Len(forest)}

\* The node of a forest with the given id (its path).
RECURSIVE NodeAt(_, _)
NodeAt(forest, id) ==
    IF Len(id) = 1 THEN forest[id[1]]
    ELSE NodeAt(forest[id[1]].replies.children, Tail(id))

\* The node or one of the nodes above it is a continuation marker.
BehindMarker(forest, id) ==
    \E k \in 1..Len(id) : NodeAt(forest, SubSeq(id, 1, k)).kind = "more"

\* Pre-order on ids: a node comes before its descendants, and the subtree of
\* an earlier sibling before that of a later one.
Precedes(p, q) ==
    \/ Len(p) < Len(q) /\ SubSeq(q, 1, Len(p)) = p
    \/ \E k \in 1..Min(Len(p), Len(q)) :
          /\ SubSeq(p, 1, k - 1) = SubSeq(q, 1, k - 1)
          /\ p[k] < q[k]

\* C1 as written: after searchMarketplace or getNewListings returns, for every
\* integer limit the results are at most limit many, and searchMarketplace's
\* total_results is the length of the returned results.
C1_CappedForEveryLimit ==
    FbSearchReturned =>
        /\ Len(result.results) <= args.limit
        /\ (op = "searchMarketplace" => result.total_results = Len(result.results))

\* C1 amended: the same for every limit >= 0 (a negative limit cannot bound a
\* length, and slice(0, limit) then counts from the end).
C1_CappedForNonNegativeLimit ==
    (FbSearchReturned /\ args.limit >= 0) =>
        /\ Len(result.results) <= args.limit
        /\ (op = "searchMarketplace" => result.total_results = Len(result.results))

\* The item-link scan met more distinct ids than limit and stopped at limit.
C1_Witness ==
    /\ FbSearchReturned
    /\ op = "searchMarketplace"
    /\ path = "scanned"
    /\ args.limit = 1
    /\ Cardinality(Range(resp.body.links)) > 1
    /\ Len(result.results) = 1
    /\ result.total_results = 1

\* C2: the records returned by searchMarketplace, getNewListings and
\* getCategories have pairwise distinct ids.
C2_UniqueIds ==
    (pc = "done" /\ op \in FbSearchOps \cup {"getCategories"}) =>
        NoDuplicates(IdsOf(result.results))

\* C3: the comments of a returned thread are, in pre-order, exactly the
\* non-continuation nodes of the loaded reply tree whose depth is at most
\* maxDepth (3); a node deeper than that is left out while the nodes below it
\* are still visited and reported when their depth allows.
C3_FlattenPreOrderDepthFilter ==
    ThreadReturned =>
        LET forest == resp.body.children
            out == result.comments
            ids == IdsOf(out)
        IN /\ Range(ids) = {n.id : n \in {m \in AllNodes(forest) :
                                            /\ ~BehindMarker(forest, m.id)
                                            /\ m.depth <= DefaultMaxDepth}}
           /\ \A i, j \in 1..Len(out) : i < j => Precedes(ids[i], ids[j])
           /\ \A i \in 1..Len(out) : out[i].depth = NodeAt(forest, ids[i]).depth

\* A node deeper than maxDepth is left out and a reply below it is reported,
\* after an earlier sibling subtree.
C3_Witness ==
    /\ ThreadReturned
    /\ \E n \in AllNodes(resp.body.children) :
          /\ n.kind = "t1"
          /\ n.depth > DefaultMaxDepth
          /\ n.id \notin Range(IdsOf(result.comments))
          /\ \E c \in Range(n.replies.children) : c.id \in Range(IdsOf(result.comments))

\* C4: a continuation marker gives no comment and nothing reached only
\* through a continuation marker is in the comments of a returned thread.
C4_MarkersSkipped ==
    ThreadReturned =>
        \A n \in AllNodes(resp.body.children) :
            BehindMarker(resp.body.children, n.id) =>
                n.id \notin Range(IdsOf(result.comments))

\* A marker carries a reply that would pass the depth filter, and the thread
\* is returned without it.
C4_Witness ==
    /\ ThreadReturned
    /\ \E n \in AllNodes(resp.body.children) :
          /\ n.kind = "more"
          /\ \E c \in Range(n.replies.children) :
                c.kind = "t1" /\ c.depth <= DefaultMaxDepth
    /\ Len(result.comments) > 0

\* C5: in a returned thread a comment's is_op is true exactly when its author
\* field equals the post's author field.
C5_IsOpIffSameAuthor ==
    ThreadReturned =>
        \A i \in 1..Len(result.comments) :
            result.comments[i].is_op <=> (result.comments[i].author = result.post.author)

\* C6: a call issues exactly one request; when the response is not ok the call
\* ends in a fetch error, with no further request, no read of the body and no
\* result.
C6_OneRequestFailFast ==
    /\ requests <= 1
    /\ pc # "idle" => requests = 1
    /\ pc = "done" => resp.ok
    /\ (Ended /\ ~resp.ok) =>
          /\ pc = "failed"
          /\ error = "FetchError"
          /\ requests = 1
          /\ bodyReads = 0
          /\ result.kind = "none"

\* getThread ended on a non-ok response.
C6_Witness ==
    /\ op = "getThread"
    /\ pc = "failed"
    /\ ~resp.ok
    /\ error = "FetchError"
    /\ requests = 1

\* C7 as written: getThread ends in a shape error whenever the ok body is not
\* a sequence of exactly two elements, and a thread returned for a two-element
\* body has total_comments = post.num_comments.
C7_ExactlyTwoElements ==
    (Ended /\ op = "getThread" /\ resp.ok) =>
        IF resp.body.isArray /\ resp.body.length = 2
        THEN pc = "done" => result.total_comments = result.post.num_comments
        ELSE pc = "failed" /\ error = "ShapeError" /\ result.kind = "none"

\* C7 amended: getThread ends in a shape error exactly when the ok body is not
\* a sequence or has fewer than two elements; every returned thread has
\* total_comments equal to the num_comments of the post (0 when the source
\* has none), whatever the number of flattened comments.
C7_AtLeastTwoElements ==
    (Ended /\ op = "getThread" /\ resp.ok) =>
        /\ (~resp.body.isArray \/ resp.body.length < 2)
              <=> (pc = "failed" /\ error = "ShapeError")
        /\ error = "ShapeError" => result.kind = "none"
        /\ pc = "done" =>
              /\ result.total_comments = result.post.num_comments
              /\ result.total_comments =
                    (IF resp.body.post[1].num_comments = <<>> THEN 0
                     ELSE resp.body.post[1].num_comments[1])

\* A three-element body is accepted, and total_comments differs from the
\* number of flattened comments.
C7_Witness ==
    /\ ThreadReturned
    /\ resp.body.length = 3
    /\ result.total_comments # Len(result.comments)

\* C8: replies_count of a comment is the number of its directly loaded child
\* nodes, continuation markers not counted, and 0 without a reply list.
C8_RepliesCountLoadedOnly ==
    ThreadReturned =>
        \A i \in 1..Len(result.comments) :
            LET node == NodeAt(resp.body.children, result.comments[i].id) IN
            result.comments[i].replies_count =
                Cardinality({k \in 1..Len(node.replies.children) :
                                node.replies.children[k].kind # "more"})

\* C9 as written: the item-link scan runs exactly when extractFbData returned
\* null; any state object is mapped and the document is not scanned.
C9_ScanIffNull ==
    (Ended /\ op \in FbSearchOps /\ resp.ok) =>
        (path = "scanned" <=> fbData.isNull)

\* C9 amended: the item-link scan runs exactly when extractFbData returned
\* null or a state object without a truthy extracted_listings; a state with an
\* extracted_listings array is mapped entry by entry from the front (at most
\* limit entries when limit >= 0) and the links are not scanned.
C9_ScanIffNoExtractedListings ==
    (Ended /\ op \in FbSearchOps /\ resp.ok) =>
        /\ path = "scanned" <=> (fbData.isNull \/ fbData.el.k \in {"absent", "falsy"})
        /\ (fbData.el.k = "array") =>
              /\ pc = "done"
              /\ path = "mapped"
              /\ Len(result.results) <= Len(fbData.el.items)
              /\ \A i \in 1..Len(result.results) :
                    result.results[i].id = fbData.el.items[i].id
              /\ args.limit >= 0 =>
                    Len(result.results) = Min(args.limit, Len(fbData.el.items))

\* A relay state without extracted_listings was found and the links were
\* scanned all the same.
C9_Witness ==
    /\ FbSearchReturned
    /\ resp.body.relay.m = "ok"
    /\ resp.body.relay.el.k = "absent"
    /\ path = "scanned"
    /\ Len(result.results) > 0

\* C10: extractFbData returns the state of the first strategy that succeeds in
\* the order relay span, data-sjs span, listing tuples; a span that does not
\* parse counts as a failed strategy; the result is null exactly when all
\* three fail, and no failure of the call comes from the extraction.
C10_StrategyCascade ==
    (Ended /\ op \in FbSearchOps /\ resp.ok) =>
        LET html == resp.body IN
        /\ html.relay.m = "ok" => fbData = FbState(html.relay.el)
        /\ (html.relay.m # "ok" /\ html.comet.m = "ok") => fbData = FbState(html.comet.el)
        /\ (html.relay.m # "ok" /\ html.comet.m # "ok" /\ html.tuples # <<>>) =>
              /\ ~fbData.isNull
              /\ fbData.el.k = "array"
              /\ IdsOf(fbData.el.items) = html.tuples
        /\ fbData.isNull <=>
              (html.relay.m # "ok" /\ html.comet.m # "ok" /\ html.tuples = <<>>)
        /\ pc = "failed" => ~fbData.isNull

\* The relay span did not parse, and the data-sjs state was returned although
\* the document also holds listing tuples.
C10_Witness ==
    /\ FbSearchReturned
    /\ resp.body.relay.m = "bad"
    /\ resp.body.comet.m = "ok"
    /\ resp.body.tuples # <<>>
    /\ fbData = FbState(resp.body.comet.el)

====
